---- MODULE Spec2Model ----
(***************************************************************************)
(* Model of the email-driven change-request automation of datan8/autoupdate *)
(* (email-automation-test.py, live-test-setup.py, trigger-amazon-q-direct.py*)
(* and the tracker they talk to).  All workflow state lives in the external *)
(* issue tracker; every external HTTP call is one step that may fail.       *)
(***************************************************************************)
EXTENDS Integers, Sequences, FiniteSets, TLC

VARIABLES issues, runs, outbox, now, live, direct, sim,
          pulls, workflow_runs, poller, clicks, repo_call

vars ==
  <<issues, runs, outbox, now, live, direct, sim, pulls, workflow_runs, poller, clicks, repo_call>>

(***************************************************************************)
(* Bounds of the model.                                                    *)
(***************************************************************************)
NumRuns == 2
MaxClock == 1
NumSuffixes == 1
MaxClosed == 1
MaxApplications == 2

Runs == 1..NumRuns

(***************************************************************************)
(* Text helpers: Python's str.strip, str.lower, str.split(sep, 1) and the  *)
(* substring test, on TLA+ strings character by character.                 *)
(***************************************************************************)
CharAt(s, i) == SubSeq(s, i, i)

UpperChars == "ABCDEFGHIJKLMNOPQRSTUVWXYZ"
LowerChars == "abcdefghijklmnopqrstuvwxyz"

LowerChar(c) ==
  IF \E k \in 1..Len(UpperChars) : CharAt(UpperChars, k) = c
  THEN CharAt(LowerChars, CHOOSE k \in 1..Len(UpperChars) : CharAt(UpperChars, k) = c)
  ELSE c

RECURSIVE Lower(_)
Lower(s) ==
  IF Len(s) = 0 THEN ""
  ELSE LowerChar(CharAt(s, 1)) \o Lower(SubSeq(s, 2, Len(s)))

UpperChar(c) ==
  IF \E k \in 1..Len(LowerChars) : CharAt(LowerChars, k) = c
  THEN CharAt(UpperChars, CHOOSE k \in 1..Len(LowerChars) : CharAt(LowerChars, k) = c)
  ELSE c

IsLetter(c) == LowerChar(c) # c \/ UpperChar(c) # c

\* str.title(): the first letter of every word in upper case, the others lower.
RECURSIVE TitleFrom(_, _)
TitleFrom(s, inWord) ==
  IF Len(s) = 0 THEN ""
  ELSE (IF inWord THEN LowerChar(CharAt(s, 1)) ELSE UpperChar(CharAt(s, 1)))
       \o TitleFrom(SubSeq(s, 2, Len(s)), IsLetter(CharAt(s, 1)))

Title(s) == TitleFrom(s, FALSE)

IsSpace(c) == c \in {" ", "\n", "\t"}

RECURSIVE LStrip(_)
LStrip(s) ==
  IF Len(s) > 0 /\ IsSpace(CharAt(s, 1)) THEN LStrip(SubSeq(s, 2, Len(s))) ELSE s

RECURSIVE RStrip(_)
RStrip(s) ==
  IF Len(s) > 0 /\ IsSpace(CharAt(s, Len(s))) THEN RStrip(SubSeq(s, 1, Len(s) - 1)) ELSE s

Strip(s) == RStrip(LStrip(s))

MatchesAt(s, t, i) == i + Len(t) - 1 <= Len(s) /\ SubSeq(s, i, i + Len(t) - 1) = t

\* t in s
Contains(s, t) == \E i \in 1..Len(s) : MatchesAt(s, t, i)

\* Index of the first occurrence of sep in s, 0 when there is none.
Find(s, sep) ==
  LET hits == {i \in 1..Len(s) : MatchesAt(s, sep, i)}
  IN IF hits = {} THEN 0 ELSE CHOOSE i \in hits : \A j \in hits : i <= j

\* s.split(sep, 1): one part when sep does not occur, else the text before
\* and the text after its first occurrence.
Split1(s, sep) ==
  LET i == Find(s, sep)
  IN IF i = 0 THEN <<s>>
     ELSE <<SubSeq(s, 1, i - 1), SubSeq(s, i + Len(sep), Len(s))>>


\* s.split(sep): every part between the occurrences of sep.
RECURSIVE SplitAll(_, _)
SplitAll(s, sep) ==
  LET i == Find(s, sep)
  IN IF i = 0 THEN <<s>>
     ELSE <<SubSeq(s, 1, i - 1)>> \o SplitAll(SubSeq(s, i + Len(sep), Len(s)), sep)

StartsWith(s, p) == Len(p) <= Len(s) /\ SubSeq(s, 1, Len(p)) = p

(***************************************************************************)
(* Configuration and the fixed test data of main().                        *)
(***************************************************************************)
GITHUB_ORG == "bosoleil"
TestRepository == "sa-template"
LiveRepository == "client-live-test-001"
ClientEmail == "john@datan8.com"
EmailContent == "Bug in website: Hi when I refresh the contact page it gives me a 404"
WebsiteUrl == "https://example.com"
AccountId == "test-account-001"
ApprovalBaseUrl == "https://yourfunction.azurewebsites.net"

\* Replies of the LLM the classifier may receive (before strip()).
ClassifierReplies ==
  {"neither", "Neither", "neither\n", "bug: s", "Feature: s", "other: s", "bug:s"}

(***************************************************************************)
(* Token generator: APPR-<YYYYMMDDHHMMSS>-<random 1000..9999>.  The clock  *)
(* is the number of seconds elapsed within one fixed minute.               *)
(***************************************************************************)
RandMin == 1000
RandMax == 9999
ClockBase == "202501011200"

Pad2(n) == IF n < 10 THEN "0" \o ToString(n) ELSE ToString(n)

\* datetime.now().strftime("%Y%m%d%H%M%S")
Timestamp(t) == ClockBase \o Pad2(t)

\* The values random.randint(1000, 9999) is drawn from in the model: the
\* first NumSuffixes values of the range.
SuffixChoices == {RandMin + k : k \in 0..(NumSuffixes - 1)}

\* generate_approval_token() at clock t when randint() returns random_num
generate_approval_token(t, random_num) ==
  "APPR-" \o Timestamp(t) \o "-" \o ToString(random_num)

(***************************************************************************)
(* Issue tracker adapter: labels and body of a created issue, the search   *)
(* query, and the tracker's side of the four calls.                        *)
(***************************************************************************)
KindLabels(issue_type) ==
  LET lowered == Lower(issue_type)
  IN IF lowered = "bug" THEN {"bug"}
     ELSE IF lowered = "feature" THEN {"enhancement"}
     ELSE {}

CreationLabels(issue_type) ==
  {"amazon-q", "client-request", "auto-generated"} \cup KindLabels(issue_type)

ApprovalLabels ==
  {"amazon-q", "approved", "amazon-q-ready", "help-wanted", "good-first-issue"}

LiveApprovalLabels == {"approved", "amazon-q-ready"}

HelpWantedLabels == {"help-wanted", "good-first-issue"}

IssueBody(issue_type, description, website_url, account_id, approval_token) ==
  "## " \o Title(issue_type) \o " Report\n\n"
  \o "**Description:** " \o description \o "\n\n"
  \o "**Website:** " \o website_url \o "\n"
  \o "**Account ID:** " \o account_id \o "\n"
  \o "**Approval Token:** " \o approval_token \o "\n"
  \o "**Status:** Pending Client Approval\n"

RepoFullName(org, repository) == org \o "/" \o repository

\* q= of the search URL of simulate_approval_and_trigger_amazon_q.
\* A search whose repo: qualifier lost the organisation.
SearchQueryWithoutOrg(org, repository, approval_token) ==
  "repo:" \o repository \o "+" \o approval_token \o "+in:body+state:open"

SearchQuery(org, repository, approval_token) ==
  "repo:" \o org \o "/" \o repository \o "+" \o approval_token \o "+in:body+state:open"

\* The tracker's reading of a query: '+' separates the terms; repo: and
\* state: are qualifiers, in:body names the searched field, the other terms
\* are text every match has to contain.
QueryTerms(q) == SplitAll(q, "+")

QueryRepos(terms) ==
  {SubSeq(terms[k], 6, Len(terms[k])) :
     k \in {j \in DOMAIN terms : StartsWith(terms[j], "repo:")}}

\* A search that ignored the state: qualifier.
QueryOpenOnlyIgnored(terms) == FALSE

QueryOpenOnly(terms) == \E k \in DOMAIN terms : terms[k] = "state:open"

\* A search that ignored the text terms.
QueryTextIgnored(terms) == {}

QueryText(terms) ==
  {terms[k] :
     k \in {j \in DOMAIN terms :
              /\ ~StartsWith(terms[j], "repo:")
              /\ ~StartsWith(terms[j], "state:")
              /\ ~StartsWith(terms[j], "in:")}}

\* GET /search/issues: the indexes of the matching issues.  The search
\* answers from the tracker's index, which an issue enters some time after
\* it is created.
SearchIssues(iss, q) ==
  LET terms == QueryTerms(q)
      repos == QueryRepos(terms)
      openOnly == QueryOpenOnly(terms)
      text == QueryText(terms)
  IN {i \in DOMAIN iss :
        /\ iss[i].repo \in repos
        /\ iss[i].indexed
        /\ (openOnly => iss[i].open)
        /\ \A t \in text : Contains(iss[i].body, t)}

\* A label POST that replaced the issue's labels instead of adding to them.
PostLabelsReplacing(old, add) == add

\* A label PATCH that toggled the given labels.
PatchLabelsToggling(old, new) == (old \ new) \cup (new \ old)

\* PATCH /repos/../issues/N with "labels": the issue's labels are replaced.
PatchLabels(old, new) == new

\* POST /repos/../issues/N/labels: the labels are added to the issue's.
PostLabels(old, add) == old \cup add

\* Issue numbers count up per repository.
NextNumber(iss, repo) == Cardinality({i \in DOMAIN iss : iss[i].repo = repo}) + 1

NewIssue(iss, repo, body, labels, origin) ==
  [repo |-> repo, number |-> NextNumber(iss, repo), body |-> body,
   labels |-> labels, comments |-> <<>>, open |-> TRUE, origin |-> origin,
   indexed |-> TRUE]

\* The index of issue number n of a repository, 0 when there is none.
IssueIndex(iss, repo, n) ==
  IF \E i \in DOMAIN iss : iss[i].repo = repo /\ iss[i].number = n
  THEN CHOOSE i \in DOMAIN iss : iss[i].repo = repo /\ iss[i].number = n
  ELSE 0

IssueUrl(repo, n) == "https://github.com/" \o repo \o "/issues/" \o ToString(n)


(***************************************************************************)
(* One run of email-automation-test.py's main(): its position and locals.  *)
(***************************************************************************)
NoResult == [success |-> FALSE, issue_number |-> 0, issue_url |-> "", error |-> "pending"]

NoCalls == [classify |-> 0, create |-> 0, email |-> 0, search |-> 0, patch |-> 0, comment |-> 0]

InitRun ==
  [pc |-> "classify", classification |-> "", issue_type |-> "", summary |-> "",
   approval_token |-> "", issue |-> 0, email_sent |-> FALSE,
   total_count |-> -1, issue_number |-> 0, approval_result |-> NoResult,
   classify_error |-> FALSE, patched |-> FALSE, calls |-> NoCalls]

Called(run, what) == [run EXCEPT !.calls[what] = @ + 1]

TypeOK ==
  /\ now \in 0..MaxClock
  /\ \A r \in Runs :
       runs[r].pc \in {"classify", "create", "email", "search", "patch", "comment",
                        "approval", "done"}
  /\ \A i \in DOMAIN issues : issues[i].number >= 1

\* demo-simulation.py before its main() starts.
InitSim ==
  [pc |-> "classify", email_content |-> "Hi when I refresh the contact page it gives me a 404",
   issue_type |-> "", classification |-> "", result |-> <<>>, email |-> <<>>]

\* check-amazon-q-status.py before its main() starts.  issue and pr_found
\* are main()'s locals; comments is issue['comments'], comments_status what
\* the comments GET answered, amazon_q_found and prs (the number of pull
\* requests listed) the locals of the check functions, shown the number of
\* workflow runs printed, reported the summary main() printed; polls counts
\* the times main() was run to its end.
InitPoller ==
  [pc |-> "issue", issue |-> "unset", comments |-> -1, comments_status |-> "none",
   amazon_q_found |-> FALSE, pr_found |-> "unset", prs |-> -1, shown |-> -1,
   reported |-> "", polls |-> 0]

\* get_client_repository before it is called.
InitRepoCall == [pc |-> "call", account_id |-> "", website_url |-> "", repo_name |-> ""]

\* No pull request, no workflow run, the poller not started, no link of an
\* email followed, get_client_repository not called.
Untouched ==
  /\ pulls = <<>>
  /\ workflow_runs = <<>>
  /\ poller = InitPoller
  /\ clicks = {}
  /\ repo_call = InitRepoCall

\* live-test-setup.py before its issue exists; label_posts counts the label
\* POSTs the tracker answered with 200.
InitLive ==
  [pc |-> "create", approval_token |-> "", issue |-> 0, approved |-> FALSE, label_posts |-> 0]

Init ==
  /\ issues = <<>>
  /\ runs = [r \in Runs |-> InitRun]
  /\ outbox = {}
  /\ now = 0
  /\ live = InitLive
  /\ direct = [pc |-> "comment", trigger_success |-> FALSE, label_success |-> FALSE]
  /\ sim = InitSim
  /\ Untouched

\* A classifier that, when the request raised, fell back to a default report.
ClassificationOfFailOpen(ok, raw) == IF ok THEN Strip(raw) ELSE "bug: classification failed"

\* classify_email_content as main() reads it: the stripped reply, or
\* "neither" when the request raised.
ClassificationOf(ok, raw) == IF ok THEN Strip(raw) ELSE "neither"

\* A reading of the classification that lost both skips.
ParseClassificationNoSkip(classification) ==
  LET parts == Split1(classification, ": ")
  IN [skip |-> FALSE, issue_type |-> Strip(parts[1]),
      summary |-> IF Len(parts) < 2 THEN "" ELSE Strip(parts[2])]

\* main()'s reading of the classification: skip "neither", split on ": ",
\* skip a reply of one part; else the type and the summary.
ParseClassification(classification) ==
  LET parts == Split1(classification, ": ")
  IN IF classification = "neither" \/ Len(parts) < 2
     THEN [skip |-> TRUE, issue_type |-> "", summary |-> ""]
     ELSE [skip |-> FALSE, issue_type |-> Strip(parts[1]), summary |-> Strip(parts[2])]

\* main() steps 1 to 4: classify and parse; then the test account, the
\* repository and the token.
classify_email_content(r) ==
  /\ runs[r].pc = "classify"
  /\ \A q \in Runs : q < r => runs[q].pc # "classify"
  /\ \E ok \in BOOLEAN, raw \in ClassifierReplies, random_num \in SuffixChoices :
       LET classification == ClassificationOf(ok, raw)
           parsed == ParseClassification(classification)
           run == Called([runs[r] EXCEPT !.classification = classification,
                                         !.classify_error = ~ok], "classify")
       IN runs' = [runs EXCEPT ![r] =
            IF parsed.skip THEN [run EXCEPT !.pc = "done"]
            ELSE [run EXCEPT !.pc = "create",
                             !.issue_type = parsed.issue_type,
                             !.summary = parsed.summary,
                             !.approval_token = generate_approval_token(now, random_num)]]
  /\ UNCHANGED <<issues, outbox, now, live, direct, sim, pulls, workflow_runs, poller, clicks, repo_call>>

\* main() step 5: POST /repos/../issues; None (and return) when it raised.
create_github_issue(r) ==
  /\ runs[r].pc = "create"
  /\ \E ok \in BOOLEAN :
       LET repo == RepoFullName(GITHUB_ORG, TestRepository)
           body == IssueBody(runs[r].issue_type, EmailContent, WebsiteUrl, AccountId,
                             runs[r].approval_token)
           issue == NewIssue(issues, repo, body, CreationLabels(runs[r].issue_type), r)
       IN IF ok
          THEN /\ issues' = Append(issues, issue)
               /\ runs' = [runs EXCEPT ![r] =
                    Called([@ EXCEPT !.pc = "email", !.issue = issue.number], "create")]
          ELSE /\ issues' = issues
               /\ runs' = [runs EXCEPT ![r] = Called([@ EXCEPT !.pc = "done"], "create")]
  /\ UNCHANGED <<outbox, now, live, direct, sim, pulls, workflow_runs, poller, clicks, repo_call>>

\* Links that all lead to the approve path.
ApprovalLinkOnePath(base, action, approval_token, repository) ==
  base \o "/approve?token=" \o approval_token \o "&repo=" \o repository

ApprovalLink(base, action, approval_token, repository) ==
  base \o "/" \o action \o "?token=" \o approval_token \o "&repo=" \o repository

\* A plain-text representation that lost its reject line.
TextContentWithoutReject(content_summary, approve_link, reject_link, approval_token) ==
  "Confirm Your Website Change Request\n\n"
  \o "Summary: " \o content_summary \o "\n\n"
  \o "[APPROVE] " \o approve_link \o "\n\n"
  \o "Approval Token: " \o approval_token \o "\n"

\* The two representations and the subject send_confirmation_email builds.
TextContent(content_summary, approve_link, reject_link, approval_token) ==
  "Confirm Your Website Change Request\n\n"
  \o "Summary: " \o content_summary \o "\n\n"
  \o "[APPROVE] " \o approve_link \o "\n\n"
  \o "[REJECT] " \o reject_link \o "\n\n"
  \o "Approval Token: " \o approval_token \o "\n"

HtmlContent(content_summary, approve_link, reject_link, approval_token) ==
  "<!DOCTYPE html>\n<html>\n"
  \o "<p><strong>Summary:</strong> " \o content_summary \o "</p>\n"
  \o "<a href=\"" \o approve_link \o "\" class=\"button approve\">[APPROVE]</a>\n"
  \o "<a href=\"" \o reject_link \o "\" class=\"button reject\">[REJECT]</a>\n"
  \o "<p><strong>Approval Token:</strong> " \o approval_token \o "</p>\n"
  \o "</html>"

EmailSubject(approval_token) == "Confirm Your Website Change Request - Token: " \o approval_token

\* The message send_confirmation_email posts to the mail service.
ConfirmationEmail(client_email, content_summary, approve_link, reject_link, approval_token, origin) ==
  [to |-> client_email, subject |-> EmailSubject(approval_token),
   text |-> TextContent(content_summary, approve_link, reject_link, approval_token),
   html |-> HtmlContent(content_summary, approve_link, reject_link, approval_token),
   approve_link |-> approve_link, reject_link |-> reject_link,
   approval_token |-> approval_token, origin |-> origin]

\* A main() that went on to the approval whatever the mail service answered.
AfterEmailUnchecked(email_sent) == "search"

\* main() after step 7: return when the email was not sent.
AfterEmail(email_sent) == IF email_sent THEN "search" ELSE "done"

\* main() steps 6 and 7: the links, then POST /v3/mail/send.
send_confirmation_email(r) ==
  /\ runs[r].pc = "email"
  /\ \E ok \in BOOLEAN :
       LET approve_link == ApprovalLink(ApprovalBaseUrl, "approve", runs[r].approval_token, TestRepository)
           reject_link == ApprovalLink(ApprovalBaseUrl, "reject", runs[r].approval_token, TestRepository)
           mail == ConfirmationEmail(ClientEmail, runs[r].summary, approve_link, reject_link,
                                     runs[r].approval_token, r)
       IN /\ outbox' = IF ok THEN outbox \cup {mail} ELSE outbox
          /\ runs' = [runs EXCEPT ![r] =
               Called([@ EXCEPT !.pc = AfterEmail(ok), !.email_sent = ok], "email")]
  /\ UNCHANGED <<issues, now, live, direct, sim, pulls, workflow_runs, poller, clicks, repo_call>>


(***************************************************************************)
(* simulate_approval_and_trigger_amazon_q: search, label update, comment.  *)
(* Any exception ends it with {'success': False, 'error': str(e)}.         *)
(***************************************************************************)
ApprovalComment(approval_token, repository) ==
  "Client Approval Received - SIMULATED FOR TESTING\n\n"
  \o "@amazon-q please help with this issue.\n"
  \o "- Client approval token: " \o approval_token \o "\n"
  \o "- Repository: " \o repository \o "\n"

NewComment(body, source, origin) ==
  [body |-> body, source |-> source, origin |-> origin, author |-> "automation"]

\* An exception answered with a success result.
FailureReportedAsSuccess(error) ==
  [success |-> TRUE, issue_number |-> 0, issue_url |-> "", error |-> error]

Failure(error) == [success |-> FALSE, issue_number |-> 0, issue_url |-> "", error |-> error]

\* A search without a match reported as a success.
NotFoundReportedAsSuccess == [success |-> TRUE, issue_number |-> 0, issue_url |-> "", error |-> ""]

NotFound == Failure("Issue not found")

\* An approval that posted its comment first.
ApprovalFirstStepComment == "comment"

\* An approval that searched again after a search with a match.
ApprovalFirstStepSearchAgain == "search"

\* The call that follows a search with a match: the label update.
ApprovalFirstStep == "patch"

\* A success that named the issue after the one it wrote to.
SuccessNamingNextIssue(repo, n) ==
  [success |-> TRUE, issue_number |-> n + 1, issue_url |-> IssueUrl(repo, n + 1), error |-> ""]

Success(repo, n) == [success |-> TRUE, issue_number |-> n, issue_url |-> IssueUrl(repo, n), error |-> ""]

\* GET /search/issues; items[0] is whichever match the tracker lists first.
approval_search(r) ==
  /\ runs[r].pc = "search"
  /\ \E ok \in BOOLEAN :
       LET found == SearchIssues(issues, SearchQuery(GITHUB_ORG, TestRepository, runs[r].approval_token))
           total_count == Cardinality(found)
       IN IF ~ok
          THEN runs' = [runs EXCEPT ![r] =
                 Called([@ EXCEPT !.pc = "done", !.approval_result = Failure("exception")], "search")]
          ELSE IF total_count > 0
          THEN \E first \in found :
                 runs' = [runs EXCEPT ![r] =
                   Called([@ EXCEPT !.pc = ApprovalFirstStep, !.total_count = total_count,
                                    !.issue_number = issues[first].number], "search")]
          ELSE runs' = [runs EXCEPT ![r] =
                 Called([@ EXCEPT !.pc = "done", !.total_count = 0,
                                  !.approval_result = NotFound], "search")]
  /\ UNCHANGED <<issues, outbox, now, live, direct, sim, pulls, workflow_runs, poller, clicks, repo_call>>

\* PATCH /repos/../issues/N {"labels": [...]}
approval_patch(r) ==
  /\ runs[r].pc = "patch"
  /\ \E ok \in BOOLEAN :
       LET i == IssueIndex(issues, RepoFullName(GITHUB_ORG, TestRepository), runs[r].issue_number)
       IN IF ok /\ i # 0
          THEN /\ issues' = [issues EXCEPT ![i].labels = PatchLabels(@, ApprovalLabels)]
               /\ runs' = [runs EXCEPT ![r] =
                    Called([@ EXCEPT !.pc = "comment", !.patched = TRUE], "patch")]
          ELSE /\ issues' = issues
               /\ runs' = [runs EXCEPT ![r] =
                    Called([@ EXCEPT !.pc = "done", !.approval_result = Failure("exception")], "patch")]
  /\ UNCHANGED <<outbox, now, live, direct, sim, pulls, workflow_runs, poller, clicks, repo_call>>

\* POST /repos/../issues/N/comments
approval_comment(r) ==
  /\ runs[r].pc = "comment"
  /\ \E ok \in BOOLEAN :
       LET repo == RepoFullName(GITHUB_ORG, TestRepository)
           i == IssueIndex(issues, repo, runs[r].issue_number)
           comment == NewComment(ApprovalComment(runs[r].approval_token, TestRepository), "approval", r)
       IN IF ok /\ i # 0
          THEN /\ issues' = [issues EXCEPT ![i].comments = Append(@, comment)]
               /\ runs' = [runs EXCEPT ![r] =
                    Called([@ EXCEPT !.pc = "done",
                                     !.approval_result = Success(repo, runs[r].issue_number)], "comment")]
          ELSE /\ issues' = issues
               /\ runs' = [runs EXCEPT ![r] =
                    Called([@ EXCEPT !.pc = "done", !.approval_result = Failure("exception")], "comment")]
  /\ UNCHANGED <<outbox, now, live, direct, sim, pulls, workflow_runs, poller, clicks, repo_call>>

(***************************************************************************)
(* The environment: the clock, and the tracker's users closing an issue.   *)
(***************************************************************************)
Tick ==
  /\ now < MaxClock
  /\ now' = now + 1
  /\ UNCHANGED <<issues, runs, outbox, live, direct, sim, pulls, workflow_runs, poller, clicks, repo_call>>

CloseIssue ==
  /\ \E i \in DOMAIN issues :
       /\ issues[i].open
       /\ Cardinality({j \in DOMAIN issues : ~issues[j].open}) < MaxClosed
       /\ issues' = [issues EXCEPT ![i].open = FALSE]
  /\ UNCHANGED <<runs, outbox, now, live, direct, sim, pulls, workflow_runs, poller, clicks, repo_call>>

(***************************************************************************)
(* live-test-setup.py: create_live_test_issue, then add_approved_label on  *)
(* the issue it created.  A tracker call answers with its success status,  *)
(* with another status, or raises.                                         *)
(***************************************************************************)
Outcomes == {"ok", "status", "exception"}

LiveIssueLabels == {"amazon-q", "client-request", "auto-generated", "bug", "live-test"}

LiveToken(t) == "APPR-" \o Timestamp(t) \o "-LIVE"

LiveIssueBody(approval_token) ==
  "## Bug Report - LIVE TEST\n\n"
  \o "**Description:** " \o EmailContent \o "\n\n"
  \o "**Website:** https://example-client-site.com\n"
  \o "**Account ID:** live-test-001  \n"
  \o "**Approval Token:** " \o approval_token \o "\n"
  \o "**Status:** LIVE TEST - Ready for Amazon Q\n"

LiveComment ==
  "LIVE TEST - Amazon Q Development Request\n\n"
  \o "@amazon-q This is a live test of the email automation system.\n"

create_live_test_issue ==
  /\ live.pc = "create"
  /\ \E outcome \in Outcomes :
       LET repo == RepoFullName(GITHUB_ORG, LiveRepository)
           approval_token == LiveToken(now)
           issue == NewIssue(issues, repo, LiveIssueBody(approval_token), LiveIssueLabels, 0)
       IN IF outcome = "ok"
          THEN /\ issues' = Append(issues, issue)
               /\ live' = [live EXCEPT !.pc = "label", !.issue = issue.number,
                                       !.approval_token = approval_token]
          ELSE /\ issues' = issues
               /\ live' = [live EXCEPT !.pc = "done"]
  /\ UNCHANGED <<runs, outbox, now, direct, sim, pulls, workflow_runs, poller, clicks, repo_call>>

\* add_approved_label: POST .../labels, status 200 expected.
add_approved_label ==
  /\ live.pc = "label"
  /\ \E outcome \in Outcomes :
       LET i == IssueIndex(issues, RepoFullName(GITHUB_ORG, LiveRepository), live.issue)
       IN IF outcome = "ok" /\ i # 0
          THEN /\ issues' = [issues EXCEPT ![i].labels = PostLabels(@, LiveApprovalLabels)]
               /\ live' = [live EXCEPT !.pc = "comment", !.label_posts = @ + 1]
          ELSE /\ issues' = issues
               /\ live' = [live EXCEPT !.pc = "done", !.approved = FALSE]
  /\ UNCHANGED <<runs, outbox, now, direct, sim, pulls, workflow_runs, poller, clicks, repo_call>>

\* What add_approved_label returns after its comment POST.
LiveCommentResult(outcome) == outcome # "exception"

\* add_approved_label: POST .../comments, status 201 expected.
add_approved_label_comment ==
  /\ live.pc = "comment"
  /\ \E outcome \in Outcomes :
       LET i == IssueIndex(issues, RepoFullName(GITHUB_ORG, LiveRepository), live.issue)
           posted == outcome = "ok" /\ i # 0
       IN /\ issues' = IF posted
                       THEN [issues EXCEPT ![i].comments =
                               Append(@, NewComment(LiveComment, "live", 0))]
                       ELSE issues
          /\ live' = [live EXCEPT !.pc = "done",
                        !.approved = LiveCommentResult(IF posted THEN "ok"
                                                       ELSE IF outcome = "ok" THEN "status"
                                                       ELSE outcome)]
  /\ UNCHANGED <<runs, outbox, now, direct, sim, pulls, workflow_runs, poller, clicks, repo_call>>

(***************************************************************************)
(* trigger-amazon-q-direct.py on issue 1 of the live test repository.      *)
(***************************************************************************)
DirectIssueNumber == 1

DirectComment == "@amazon-q please help with this issue.\n\n## Problem Summary\n"

\* trigger_amazon_q_direct: POST .../issues/1/comments, status 201 expected.
trigger_amazon_q_direct ==
  /\ direct.pc = "comment"
  /\ \E outcome \in Outcomes :
       LET i == IssueIndex(issues, RepoFullName(GITHUB_ORG, LiveRepository), DirectIssueNumber)
           posted == outcome = "ok" /\ i # 0
       IN /\ issues' = IF posted
                       THEN [issues EXCEPT ![i].comments =
                               Append(@, NewComment(DirectComment, "direct", 0))]
                       ELSE issues
          /\ direct' = [direct EXCEPT !.pc = "label", !.trigger_success = posted]
  /\ UNCHANGED <<runs, outbox, now, live, sim, pulls, workflow_runs, poller, clicks, repo_call>>

\* What add_help_wanted_label returns after its label POST.
HelpWantedResult(outcome) == outcome # "exception"

\* add_help_wanted_label: POST .../issues/1/labels, status 200 expected.
add_help_wanted_label ==
  /\ direct.pc = "label"
  /\ \E outcome \in Outcomes :
       LET i == IssueIndex(issues, RepoFullName(GITHUB_ORG, LiveRepository), DirectIssueNumber)
           added == outcome = "ok" /\ i # 0
       IN /\ issues' = IF added
                       THEN [issues EXCEPT ![i].labels = PostLabels(@, HelpWantedLabels)]
                       ELSE issues
          /\ direct' = [direct EXCEPT !.pc = "done",
                          !.label_success = HelpWantedResult(IF added THEN "ok"
                                                             ELSE IF outcome = "ok" THEN "status"
                                                             ELSE outcome)]
  /\ UNCHANGED <<runs, outbox, now, live, sim, pulls, workflow_runs, poller, clicks, repo_call>>

Next ==
  \/ \E r \in Runs : classify_email_content(r)
  \/ \E r \in Runs : create_github_issue(r)
  \/ \E r \in Runs : send_confirmation_email(r)
  \/ \E r \in Runs : approval_search(r)
  \/ \E r \in Runs : approval_patch(r)
  \/ \E r \in Runs : approval_comment(r)
  \/ Tick
  \/ CloseIssue

Spec == Init /\ [][Next]_vars


(***************************************************************************)
(* One run of every script, interleaved: the email workflow (run 1), the   *)
(* live test setup and the direct trigger.                                 *)
(***************************************************************************)
NextScripts ==
  \/ classify_email_content(1)
  \/ create_github_issue(1)
  \/ send_confirmation_email(1)
  \/ approval_search(1)
  \/ approval_patch(1)
  \/ approval_comment(1)
  \/ create_live_test_issue
  \/ add_approved_label
  \/ add_approved_label_comment
  \/ trigger_amazon_q_direct
  \/ add_help_wanted_label
  \/ Tick
  \/ CloseIssue

SpecScripts == Init /\ [][NextScripts]_vars


(***************************************************************************)
(* email-automation-demo.py: main() works through its scenarios one after  *)
(* the other.  The issue creation and the approval are simulated (no       *)
(* tracker call, always the same answer); the classification and the       *)
(* confirmation email are real calls.                                      *)
(***************************************************************************)
DemoRepository == "client-demo-site"

DemoIssueNumber == 42

DemoScenarios ==
  <<[client_email |-> "john@datan8.com", email_content |-> EmailContent],
    [client_email |-> "sarah@datan8.com",
     email_content |-> "Feature request: Please add a dark mode toggle to the navigation menu"],
    [client_email |-> "spam@example.com",
     email_content |-> "Hi, I am offering SEO services for your website. Please contact me."]>>

DemoScenario(r) == DemoScenarios[((r - 1) % Len(DemoScenarios)) + 1]

\* Steps 1 and 2 of a scenario; the loop reaches it when the scenarios
\* before it are over.
demo_classify_email_content(r) ==
  /\ \A q \in Runs : q < r => runs[q].pc = "done"
  /\ classify_email_content(r)

\* Step 3: simulate_github_issue_creation always answers with issue 42.
simulate_github_issue_creation(r) ==
  /\ runs[r].pc = "create"
  /\ runs' = [runs EXCEPT ![r] = [@ EXCEPT !.pc = "email", !.issue = DemoIssueNumber]]
  /\ UNCHANGED <<issues, outbox, now, live, direct, sim, pulls, workflow_runs, poller, clicks, repo_call>>

\* Steps 4 and 5: the links and the confirmation email; the loop goes on
\* to step 6 whatever send_confirmation_email returned.
demo_send_confirmation_email(r) ==
  /\ runs[r].pc = "email"
  /\ \E ok \in BOOLEAN :
       LET approve_link == ApprovalLink(ApprovalBaseUrl, "approve", runs[r].approval_token, DemoRepository)
           reject_link == ApprovalLink(ApprovalBaseUrl, "reject", runs[r].approval_token, DemoRepository)
           mail == ConfirmationEmail(DemoScenario(r).client_email, runs[r].summary,
                                     approve_link, reject_link, runs[r].approval_token, r)
       IN /\ outbox' = IF ok THEN outbox \cup {mail} ELSE outbox
          /\ runs' = [runs EXCEPT ![r] =
               Called([@ EXCEPT !.pc = "approval", !.email_sent = ok], "email")]
  /\ UNCHANGED <<issues, now, live, direct, sim, pulls, workflow_runs, poller, clicks, repo_call>>

\* Step 6: simulate_approval_process prints what it would do and answers
\* with a success.
simulate_approval_process(r) ==
  /\ runs[r].pc = "approval"
  /\ runs' = [runs EXCEPT ![r] =
       [@ EXCEPT !.pc = "done",
                 !.approval_result = Success(RepoFullName("bosoleil", DemoRepository), DemoIssueNumber)]]
  /\ UNCHANGED <<issues, outbox, now, live, direct, sim, pulls, workflow_runs, poller, clicks, repo_call>>

NextDemo ==
  \/ \E r \in Runs : demo_classify_email_content(r)
  \/ \E r \in Runs : simulate_github_issue_creation(r)
  \/ \E r \in Runs : demo_send_confirmation_email(r)
  \/ \E r \in Runs : simulate_approval_process(r)
  \/ Tick

SpecDemo == Init /\ [][NextDemo]_vars


(***************************************************************************)
(* demo-simulation.py: main() classifies the client's email by keywords,   *)
(* builds the issue it would create (the token with it) and the approval   *)
(* email it would send.  Nothing is posted; no step can fail.              *)
(***************************************************************************)
SimContents ==
  {"Hi when I refresh the contact page it gives me a 404",
   "The menu is BROKEN on mobile",
   "Please add a dark mode toggle",
   "Feature request: export to PDF",
   "The footer looks odd",
   "Hi, I am offering SEO services"}

SimClientEmail == "john@datan8.com"

SimRepository == "client-demo-client-001"

\* hash(title) % 10000
HashMin == 0
HashMax == 9999
HashChoices == {HashMin, 42, HashMax}

\* f"{n:04d}"
Pad4(n) ==
  IF n < 10 THEN "000" \o ToString(n)
  ELSE IF n < 100 THEN "00" \o ToString(n)
  ELSE IF n < 1000 THEN "0" \o ToString(n)
  ELSE ToString(n)

\* classify_email: the issue type and the summary, by keywords.
classify_email(content) ==
  LET lowered == Lower(content)
  IN IF Contains(lowered, "404") \/ Contains(lowered, "not found") \/ Contains(lowered, "broken")
     THEN <<"bug", "Page not found error - needs routing fix">>
     ELSE IF Contains(lowered, "add") \/ Contains(lowered, "new") \/ Contains(lowered, "feature")
     THEN <<"enhancement", "New feature request from client">>
     ELSE <<"bug", "General website issue reported by client">>

SimToken(t, hashed) == "APPR-" \o Timestamp(t) \o "-" \o Pad4(hashed)

SimIssueBody(issue_type, description, token) ==
  "## " \o Title(issue_type) \o " Report\n\n"
  \o "**Description:** " \o description \o "\n\n"
  \o "**Website:** https://example.com\n"
  \o "**Account ID:** demo-client-001  \n"
  \o "**Approval Token:** " \o token \o "\n"
  \o "**Status:** Pending Client Approval\n"

SimIssueLabels(issue_type) == {"amazon-q", "client-request", "auto-generated", issue_type}

\* The one text send_approval_email builds and prints.
SimEmailContent(issue_summary, token, repo_name) ==
  "\nSubject: Confirm Your Website Change Request - Token: " \o token \o "\n\n"
  \o "Summary: " \o issue_summary \o "\n\n"
  \o "[APPROVE] " \o ApprovalLink(ApprovalBaseUrl, "approve", token, repo_name) \o "\n\n"
  \o "[REJECT] " \o ApprovalLink(ApprovalBaseUrl, "reject", token, repo_name) \o "\n"

InitSimulation ==
  /\ issues = <<>>
  /\ runs = [r \in Runs |-> InitRun]
  /\ outbox = {}
  /\ now = 0
  /\ live = InitLive
  /\ direct = [pc |-> "comment", trigger_success |-> FALSE, label_success |-> FALSE]
  /\ \E content \in SimContents : sim = [InitSim EXCEPT !.email_content = content]
  /\ Untouched

\* main() step 1
sim_classify_email ==
  /\ sim.pc = "classify"
  /\ LET classified == classify_email(sim.email_content)
     IN sim' = [sim EXCEPT !.pc = "create", !.issue_type = classified[1],
                           !.classification = classified[2]]
  /\ UNCHANGED <<issues, runs, outbox, now, live, direct, pulls, workflow_runs, poller, clicks, repo_call>>

\* main() steps 2 to 4: create_github_issue(config, issue_type,
\* classification, email_content, repo_name)
sim_create_github_issue ==
  /\ sim.pc = "create"
  /\ \E hashed \in HashChoices :
       LET token == SimToken(now, hashed)
       IN sim' = [sim EXCEPT !.pc = "email",
                    !.result = [issue_number |-> DemoIssueNumber,
                                issue_url |-> IssueUrl(RepoFullName(GITHUB_ORG, SimRepository), DemoIssueNumber),
                                approval_token |-> token,
                                issue_data |-> [title |-> sim.classification,
                                                body |-> SimIssueBody(sim.issue_type, sim.email_content, token),
                                                labels |-> SimIssueLabels(sim.issue_type)]]]
  /\ UNCHANGED <<issues, runs, outbox, now, live, direct, pulls, workflow_runs, poller, clicks, repo_call>>

\* main() step 5: send_approval_email(config, client_email, classification,
\* token, repo_name)
send_approval_email ==
  /\ sim.pc = "email"
  /\ sim' = [sim EXCEPT !.pc = "done",
               !.email = [to |-> SimClientEmail,
                          text |-> SimEmailContent(sim.classification, sim.result.approval_token,
                                                   SimRepository)]]
  /\ UNCHANGED <<issues, runs, outbox, now, live, direct, pulls, workflow_runs, poller, clicks, repo_call>>

NextSimulation ==
  \/ sim_classify_email
  \/ sim_create_github_issue
  \/ send_approval_email
  \/ Tick

SpecSimulation == InitSimulation /\ [][NextSimulation]_vars


(***************************************************************************)
(* The approval label update on issues with any labels: the tracker's      *)
(* users may have set any of the labels the scripts know.  Every run of    *)
(* the workflow holds the token of issue 1 of the test repository and has  *)
(* found it (the approval of one request, performed once per run);         *)
(* add_approved_label is called for issue 1 of the live test repository,   *)
(* and called again for the same issue.                                    *)
(***************************************************************************)
LabelUniverse == CreationLabels("bug") \cup ApprovalLabels \cup LiveIssueLabels

FoundRun ==
  LET approval_token == generate_approval_token(0, RandMin)
  IN [InitRun EXCEPT !.pc = ApprovalFirstStep, !.classification = "bug: s",
                     !.issue_type = "bug", !.summary = "s",
                     !.approval_token = approval_token, !.issue = 1,
                     !.email_sent = TRUE, !.total_count = 1, !.issue_number = 1,
                     !.calls = [NoCalls EXCEPT !.classify = 1, !.create = 1,
                                               !.email = 1, !.search = 1]]

InitLabels ==
  /\ \E labels \in SUBSET LabelUniverse :
       LET test == NewIssue(<<>>, RepoFullName(GITHUB_ORG, TestRepository),
                            IssueBody("bug", EmailContent, WebsiteUrl, AccountId,
                                      generate_approval_token(0, RandMin)),
                            labels, 1)
           lived == NewIssue(<<>>, RepoFullName(GITHUB_ORG, LiveRepository),
                             LiveIssueBody(LiveToken(0)), labels, 0)
       IN issues = <<test, lived>>
  /\ runs = [r \in Runs |-> FoundRun]
  /\ outbox = {}
  /\ now = 0
  /\ live = [InitLive EXCEPT !.pc = "label", !.approval_token = LiveToken(0), !.issue = 1]
  /\ direct = [pc |-> "done", trigger_success |-> FALSE, label_success |-> FALSE]
  /\ sim = InitSim
  /\ Untouched

\* add_approved_label(config, headers, repo_name, issue_number) called again
\* with the same issue number.
add_approved_label_again ==
  /\ live.pc = "done"
  /\ live.issue # 0
  /\ live.label_posts < MaxApplications
  /\ live' = [live EXCEPT !.pc = "label"]
  /\ UNCHANGED <<issues, runs, outbox, now, direct, sim, pulls, workflow_runs, poller, clicks, repo_call>>

NextLabels ==
  \/ \E r \in Runs : approval_patch(r)
  \/ \E r \in Runs : approval_comment(r)
  \/ add_approved_label
  \/ add_approved_label_comment
  \/ add_approved_label_again

SpecLabels == InitLabels /\ [][NextLabels]_vars


(***************************************************************************)
(* The approval step on its own: simulate_approval_and_trigger_amazon_q is *)
(* called with a token while the one issue embedding that token is open or *)
(* closed, in the requested repository, in another repository of the       *)
(* organisation or in another organisation's repository of the same name,  *)
(* and already in the search index or not yet.                             *)
(***************************************************************************)
OtherOrg == "acme"

SearchRepos ==
  {RepoFullName(GITHUB_ORG, TestRepository), RepoFullName(GITHUB_ORG, LiveRepository),
   RepoFullName(OtherOrg, TestRepository)}

SearchingRun ==
  LET approval_token == generate_approval_token(0, RandMin)
  IN [InitRun EXCEPT !.pc = "search", !.classification = "bug: s",
                     !.issue_type = "bug", !.summary = "s",
                     !.approval_token = approval_token, !.issue = 1,
                     !.email_sent = TRUE,
                     !.calls = [NoCalls EXCEPT !.classify = 1, !.create = 1, !.email = 1]]

InitSearch ==
  /\ \E repo \in SearchRepos, open \in BOOLEAN, indexed \in BOOLEAN :
       issues = <<[NewIssue(<<>>, repo,
                            IssueBody("bug", EmailContent, WebsiteUrl, AccountId,
                                      generate_approval_token(0, RandMin)),
                            CreationLabels("bug"), 1)
                   EXCEPT !.open = open, !.indexed = indexed]>>
  /\ runs = [r \in Runs |-> SearchingRun]
  /\ outbox = {}
  /\ now = 0
  /\ live = [InitLive EXCEPT !.pc = "done"]
  /\ direct = [pc |-> "done", trigger_success |-> FALSE, label_success |-> FALSE]
  /\ sim = InitSim
  /\ Untouched

\* The tracker's search index catches up with an issue.
IndexIssue ==
  /\ \E i \in DOMAIN issues :
       /\ ~issues[i].indexed
       /\ issues' = [issues EXCEPT ![i].indexed = TRUE]
  /\ UNCHANGED <<runs, outbox, now, live, direct, sim, pulls, workflow_runs, poller, clicks, repo_call>>

ApprovalCall(r) == approval_search(r) \/ approval_patch(r) \/ approval_comment(r)

NextSearch ==
  \/ \E r \in Runs : approval_search(r)
  \/ \E r \in Runs : approval_patch(r)
  \/ \E r \in Runs : approval_comment(r)
  \/ IndexIssue
  \/ CloseIssue
  \/ Tick

\* A call that was started returns, and the index catches up in the end.
SpecSearch ==
  /\ InitSearch
  /\ [][NextSearch]_vars
  /\ \A r \in Runs : WF_vars(ApprovalCall(r))
  /\ WF_vars(IndexIssue)


(***************************************************************************)
(* check-amazon-q-status.py: main() runs check_issue_status,               *)
(* check_pull_requests and check_github_actions against issue 1 of the     *)
(* live test repository and prints a summary; an operator runs it again.   *)
(* Meanwhile live-test-setup.py creates and approves the issue, and the    *)
(* tracker's other users comment, open and close pull requests, and        *)
(* workflow runs start and complete.                                       *)
(***************************************************************************)
MaxPolls == 2
MaxAgentComments == 1
MaxPulls == 2
MaxWorkflowRuns == 1

PollerIssueNumber == 1
ShownRuns == 3

\* Logins of the tracker's other users.
Logins == {"Amazon-Q-Developer", "octocat"}

\* requests.get: the resource after the GET.
GetWiping(resource) == <<>>

Get(resource) == resource

\* 'amazon-q' in login.lower() or 'bot' in login.lower()
IsAgentLogin(login) == Contains(Lower(login), "amazon-q") \/ Contains(Lower(login), "bot")

\* GET /repos/../pulls lists the open pull requests.
OpenPulls(prs) == {k \in DOMAIN prs : prs[k].open}

\* if issue['comments'] > 1: the comments are fetched only then.
FetchesComments(count) == count > 1

\* A truth test that took None for true.
TruthyUnlessFalse(pr_found) == pr_found # "False"

Truthy(pr_found) == pr_found = "True"

check_issue_status ==
  /\ poller.pc = "issue"
  /\ \E outcome \in Outcomes, comments_outcome \in Outcomes :
       LET i == IssueIndex(issues, RepoFullName(GITHUB_ORG, LiveRepository), PollerIssueNumber)
           count == IF i = 0 THEN -1 ELSE Len(issues[i].comments)
           found == \E k \in DOMAIN issues[i].comments : IsAgentLogin(issues[i].comments[k].author)
       IN IF outcome # "ok" \/ i = 0
          THEN poller' = [poller EXCEPT !.pc = "pulls", !.issue = "None"]
          ELSE IF ~FetchesComments(count)
          THEN poller' = [poller EXCEPT !.pc = "pulls", !.issue = "issue", !.comments = count]
          ELSE IF comments_outcome = "exception"
          THEN poller' = [poller EXCEPT !.pc = "pulls", !.issue = "None", !.comments = count,
                                        !.comments_status = comments_outcome]
          ELSE poller' = [poller EXCEPT !.pc = "pulls", !.issue = "issue", !.comments = count,
                                        !.comments_status = comments_outcome,
                                        !.amazon_q_found = comments_outcome = "ok" /\ found]
  /\ issues' = Get(issues)
  /\ UNCHANGED <<runs, outbox, now, live, direct, sim, pulls, workflow_runs, clicks, repo_call>>

\* True for a pull request of an agent login, False without pull requests or
\* on an error, None when the loop ends without a return.
check_pull_requests ==
  /\ poller.pc = "pulls"
  /\ \E outcome \in Outcomes :
       LET prs == OpenPulls(pulls)
       IN IF outcome # "ok"
          THEN poller' = [poller EXCEPT !.pc = "actions", !.pr_found = "False"]
          ELSE IF prs = {}
          THEN poller' = [poller EXCEPT !.pc = "actions", !.pr_found = "False", !.prs = 0]
          ELSE IF \E k \in prs : IsAgentLogin(pulls[k].login)
          THEN poller' = [poller EXCEPT !.pc = "actions", !.pr_found = "True",
                                        !.prs = Cardinality(prs)]
          ELSE poller' = [poller EXCEPT !.pc = "actions", !.pr_found = "None",
                                        !.prs = Cardinality(prs)]
  /\ pulls' = Get(pulls)
  /\ UNCHANGED <<issues, runs, outbox, now, live, direct, sim, workflow_runs, clicks, repo_call>>

check_github_actions ==
  /\ poller.pc = "actions"
  /\ \E outcome \in Outcomes :
       poller' = [poller EXCEPT !.pc = "summary",
                    !.shown = IF outcome # "ok" THEN -1
                              ELSE IF Len(workflow_runs) < ShownRuns THEN Len(workflow_runs)
                              ELSE ShownRuns]
  /\ workflow_runs' = Get(workflow_runs)
  /\ UNCHANGED <<issues, runs, outbox, now, live, direct, sim, pulls, clicks, repo_call>>

\* main(): the summary, from pr_found alone.
poller_summary ==
  /\ poller.pc = "summary"
  /\ poller' = [poller EXCEPT !.pc = "done", !.polls = @ + 1,
                  !.reported = IF Truthy(poller.pr_found) THEN "SUCCESS" ELSE "Pending"]
  /\ UNCHANGED <<issues, runs, outbox, now, live, direct, sim, pulls, workflow_runs, clicks, repo_call>>

\* The operator runs the script again.
poller_again ==
  /\ poller.pc = "done"
  /\ poller.polls < MaxPolls
  /\ poller' = [InitPoller EXCEPT !.polls = poller.polls]
  /\ UNCHANGED <<issues, runs, outbox, now, live, direct, sim, pulls, workflow_runs, clicks, repo_call>>

\* A user of the tracker comments on the live test issue.
AgentComment ==
  /\ \E login \in Logins :
       LET i == IssueIndex(issues, RepoFullName(GITHUB_ORG, LiveRepository), PollerIssueNumber)
       IN /\ i # 0
          /\ Cardinality({k \in DOMAIN issues[i].comments :
                            issues[i].comments[k].source = "agent"}) < MaxAgentComments
          /\ issues' = [issues EXCEPT ![i].comments =
                          Append(@, [NewComment("Working on it", "agent", 0) EXCEPT !.author = login])]
  /\ UNCHANGED <<runs, outbox, now, live, direct, sim, pulls, workflow_runs, poller, clicks, repo_call>>

OpenPullRequest ==
  /\ Len(pulls) < MaxPulls
  /\ \E login \in Logins :
       pulls' = Append(pulls, [number |-> Len(pulls) + 1, login |-> login, open |-> TRUE])
  /\ UNCHANGED <<issues, runs, outbox, now, live, direct, sim, workflow_runs, poller, clicks, repo_call>>

ClosePullRequest ==
  /\ \E k \in OpenPulls(pulls) : pulls' = [pulls EXCEPT ![k].open = FALSE]
  /\ UNCHANGED <<issues, runs, outbox, now, live, direct, sim, workflow_runs, poller, clicks, repo_call>>

StartWorkflowRun ==
  /\ Len(workflow_runs) < MaxWorkflowRuns
  /\ workflow_runs' = Append(workflow_runs,
       [run_number |-> Len(workflow_runs) + 1, status |-> "in_progress", conclusion |-> ""])
  /\ UNCHANGED <<issues, runs, outbox, now, live, direct, sim, pulls, poller, clicks, repo_call>>

CompleteWorkflowRun ==
  /\ \E k \in DOMAIN workflow_runs :
       /\ workflow_runs[k].status = "in_progress"
       /\ workflow_runs' = [workflow_runs EXCEPT ![k].status = "completed",
                                                 ![k].conclusion = "success"]
  /\ UNCHANGED <<issues, runs, outbox, now, live, direct, sim, pulls, poller, clicks, repo_call>>

NextPoller ==
  \/ check_issue_status
  \/ check_pull_requests
  \/ check_github_actions
  \/ poller_summary
  \/ poller_again
  \/ create_live_test_issue
  \/ add_approved_label
  \/ add_approved_label_comment
  \/ AgentComment
  \/ OpenPullRequest
  \/ ClosePullRequest
  \/ StartWorkflowRun
  \/ CompleteWorkflowRun

SpecPoller == Init /\ [][NextPoller]_vars


(***************************************************************************)
(* One run of email-automation-test.py's main() and the client, who may    *)
(* follow the approve or the reject link of an email that was delivered.   *)
(* The links point at the placeholder approval_base_url; the request they  *)
(* cause reaches no code of the workflow.                                  *)
(***************************************************************************)
ClientFollowsLink ==
  /\ \E m \in outbox : \E link \in {m.approve_link, m.reject_link} :
       /\ link \notin clicks
       /\ clicks' = clicks \cup {link}
  /\ UNCHANGED <<issues, runs, outbox, now, live, direct, sim, pulls, workflow_runs, poller, repo_call>>

NextClient ==
  \/ classify_email_content(1)
  \/ create_github_issue(1)
  \/ send_confirmation_email(1)
  \/ approval_search(1)
  \/ approval_patch(1)
  \/ approval_comment(1)
  \/ ClientFollowsLink
  \/ Tick
  \/ CloseIssue

SpecClient == Init /\ [][NextClient]_vars


(***************************************************************************)
(* The runs of main() when every call that is made returns, with an answer *)
(* or with an exception.                                                   *)
(***************************************************************************)
RunStep(r) ==
  \/ classify_email_content(r)
  \/ create_github_issue(r)
  \/ send_confirmation_email(r)
  \/ ApprovalCall(r)

SpecReturning == Init /\ [][Next]_vars /\ \A r \in Runs : WF_vars(RunStep(r))


(***************************************************************************)
(* get_client_repository(account_id, website_url) of                       *)
(* email-automation-test.py, called once with an account id and a website  *)
(* URL put together from a scheme, a host and a path, each of which may be  *)
(* missing.  An absent URL (None) and the empty URL take the same branch of *)
(* 'if website_url:'.                                                       *)
(***************************************************************************)
UrlSchemes == {"https://", "http://", "//", ""}
UrlHosts == {"www.example.com", "example.com", "shop.example.co.uk", "localhost", "[bad", ""}
UrlPaths == {"", "/contact", "?page=1"}
AccountIds == {"test-account-001", "42"}

WebsiteUrls == {scheme \o host \o path : scheme \in UrlSchemes, host \in UrlHosts, path \in UrlPaths}

SchemeChars == "abcdefghijklmnopqrstuvwxyzABCDEFGHIJKLMNOPQRSTUVWXYZ0123456789+-."

\* urlsplit's test of the text before the first ':'.
IsScheme(s) ==
  /\ Len(s) > 0
  /\ IsLetter(CharAt(s, 1))
  /\ \A k \in 1..Len(s) : Contains(SchemeChars, CharAt(s, k))

\* urlparse(url).netloc: after the scheme, the text between a leading '//'
\* and the next '/', '?' or '#'; empty without a leading '//'.
Netloc(url) ==
  LET colon == Find(url, ":")
      rest == IF colon > 0 /\ IsScheme(SubSeq(url, 1, colon - 1))
              THEN SubSeq(url, colon + 1, Len(url))
              ELSE url
      after == SubSeq(rest, 3, Len(rest))
      ends == {i \in 1..Len(after) : CharAt(after, i) \in {"/", "?", "#"}}
      stop == IF ends = {} THEN Len(after) + 1 ELSE CHOOSE i \in ends : \A j \in ends : i <= j
  IN IF StartsWith(rest, "//") THEN SubSeq(after, 1, stop - 1) ELSE ""

\* urlparse raises ValueError('Invalid IPv6 URL') for unbalanced brackets.
UrlParseRaises(url) == Contains(Netloc(url), "[") # Contains(Netloc(url), "]")

\* s.replace(old, new): every occurrence, left to right.
RECURSIVE Replace(_, _, _)
Replace(s, old, new) ==
  IF Len(s) < Len(old) \/ Len(s) = 0 THEN s
  ELSE IF MatchesAt(s, old, 1)
  THEN new \o Replace(SubSeq(s, Len(old) + 1, Len(s)), old, new)
  ELSE CharAt(s, 1) \o Replace(SubSeq(s, 2, Len(s)), old, new)

Fallback(account_id) == "client-" \o account_id

get_client_repository(account_id, website_url) ==
  IF website_url # "" /\ ~UrlParseRaises(website_url)
  THEN Replace(Replace(Netloc(website_url), "www.", ""), ".", "-")
  ELSE Fallback(account_id)

InitRepository ==
  /\ issues = <<>>
  /\ runs = [r \in Runs |-> InitRun]
  /\ outbox = {}
  /\ now = 0
  /\ live = InitLive
  /\ direct = [pc |-> "comment", trigger_success |-> FALSE, label_success |-> FALSE]
  /\ sim = InitSim
  /\ pulls = <<>>
  /\ workflow_runs = <<>>
  /\ poller = InitPoller
  /\ clicks = {}
  /\ \E account_id \in AccountIds, website_url \in WebsiteUrls :
       repo_call = [InitRepoCall EXCEPT !.account_id = account_id, !.website_url = website_url]

call_get_client_repository ==
  /\ repo_call.pc = "call"
  /\ repo_call' = [repo_call EXCEPT !.pc = "done",
                     !.repo_name = get_client_repository(repo_call.account_id, repo_call.website_url)]
  /\ UNCHANGED <<issues, runs, outbox, now, live, direct, sim, pulls, workflow_runs, poller, clicks>>

NextRepository == call_get_client_repository

SpecRepository == InitRepository /\ [][NextRepository]_vars


(***************************************************************************)
(* Properties.                                                             *)
(***************************************************************************)
HasMention(comment) == Contains(comment.body, "@amazon-q")

\* 0: pending approval, 1: approved, 2: approved and the agent triggered.
LifecycleRank(issue) ==
  IF "approved" \notin issue.labels THEN 0
  ELSE IF \E k \in DOMAIN issue.comments : HasMention(issue.comments[k]) THEN 2
  ELSE 1

\* C1: the state the labels of an issue encode only advances: no step of any
\* script takes 'approved' from an issue that has it or lowers its rank
\* pending < approved < triggered.
C1_StateOnlyAdvances ==
  [][\A i \in DOMAIN issues :
       /\ LifecycleRank(issues'[i]) >= LifecycleRank(issues[i])
       /\ ("approved" \in issues[i].labels => "approved" \in issues'[i].labels)]_vars

\* An approved issue of the live test that then got the help-wanted labels
\* and both trigger comments.
C1_Witness ==
  \E i \in DOMAIN issues :
    /\ LifecycleRank(issues[i]) = 2
    /\ "help-wanted" \in issues[i].labels
    /\ "live-test" \in issues[i].labels
    /\ Len(issues[i].comments) = 2

\* What a run has done to the tracker and the mailbox: nothing.
NoSideEffects(r) ==
  /\ runs[r].approval_token = ""
  /\ runs[r].issue = 0
  /\ \A i \in DOMAIN issues :
       /\ issues[i].origin # r
       /\ \A k \in DOMAIN issues[i].comments : issues[i].comments[k].origin # r
  /\ \A m \in outbox : m.origin # r
  /\ \A what \in {"create", "email", "search", "patch", "comment"} : runs[r].calls[what] = 0
  /\ runs[r].approval_result = NoResult

\* C2: a run whose classification is "neither" is over and has generated no
\* token, created no issue, sent no mail and attempted no approval.
C2_NeitherHasNoSideEffects ==
  \A r \in Runs :
    runs[r].classification = "neither" => runs[r].pc = "done" /\ NoSideEffects(r)

\* The classifier answered "neither" (no failure) while another run went on
\* to create its issue.
C2_Witness ==
  \E r \in Runs :
    /\ runs[r].classification = "neither"
    /\ ~runs[r].classify_error
    /\ runs[r].pc = "done"
    /\ \E q \in Runs : runs[q].issue # 0

\* The tag of a reply of the form '<tag>: <summary>', case-normalised; ""
\* for a reply of another form.
ReplyTag(classification) ==
  LET parts == Split1(classification, ": ")
  IN IF Len(parts) = 2 THEN Lower(Strip(parts[1])) ELSE ""

\* C3: every reply whose tag is neither bug nor feature, and every reply that
\* does not parse, is Irrelevant: its run has no side effect.
C3_OtherTagsAreIrrelevant ==
  \A r \in Runs :
    (runs[r].calls.classify = 1 /\ ReplyTag(runs[r].classification) \notin {"bug", "feature"})
      => NoSideEffects(r)

\* C4: a failed classification request is made once, not retried, and its
\* run is over with no side effect.
C4_ClassifierFailureAborts ==
  \A r \in Runs :
    runs[r].classify_error =>
      /\ runs[r].calls.classify = 1
      /\ runs[r].pc = "done"
      /\ NoSideEffects(r)

\* The classification request of a run failed while another run sent its mail.
C4_Witness ==
  \E r \in Runs :
    /\ runs[r].classify_error
    /\ runs[r].pc = "done"
    /\ \E q \in Runs : runs[q].email_sent

\* The open issues whose body embeds a token.
OpenEmbedding(approval_token) ==
  {i \in DOMAIN issues : issues[i].open /\ Contains(issues[i].body, approval_token)}

\* C5: no token is embedded in more than one open issue at a time, so a
\* search by token finds at most one issue.
C5_TokenInAtMostOneOpenIssue ==
  \A r \in Runs :
    runs[r].approval_token # "" =>
      /\ Cardinality(OpenEmbedding(runs[r].approval_token)) <= 1
      /\ runs[r].total_count <= 1

\* The comments an approval of run r posted.
ApprovalCommentsOf(r) ==
  UNION {{<<i, k>> : k \in {c \in DOMAIN issues[i].comments : issues[i].comments[c].origin = r}} :
         i \in DOMAIN issues}

\* C6: an approval whose search matched two or more open issues fails and
\* modifies no issue.
C6_AmbiguousSearchModifiesNothing ==
  \A r \in Runs :
    runs[r].total_count >= 2 =>
      /\ ~runs[r].approval_result.success
      /\ ApprovalCommentsOf(r) = {}
      /\ runs[r].pc \notin {"comment"}

\* C7: an approval whose search matched no open issue is over with the
\* not-found failure, has called neither the label update nor the comment
\* endpoint and has left no comment.
C7_NoMatchIsNotFoundWithoutWrites ==
  \A r \in Runs :
    runs[r].total_count = 0 =>
      /\ runs[r].pc = "done"
      /\ ~runs[r].approval_result.success
      /\ runs[r].approval_result.error = "Issue not found"
      /\ runs[r].calls.patch = 0
      /\ runs[r].calls.comment = 0
      /\ ApprovalCommentsOf(r) = {}

\* The issue of a run was closed before its approval searched for it.
C7_Witness ==
  \E r \in Runs :
    /\ runs[r].total_count = 0
    /\ runs[r].pc = "done"
    /\ runs[r].email_sent
    /\ \E i \in DOMAIN issues : issues[i].origin = r /\ ~issues[i].open

Patched == {r \in Runs : runs[r].patched}

PatchStep(r) == runs[r].pc = "patch" /\ runs'[r].pc = "comment"

PostStep == live.pc = "label" /\ live'.pc = "comment"

TestIssue(r) == IssueIndex(issues, RepoFullName(GITHUB_ORG, TestRepository), runs[r].issue_number)

LiveIssue == IssueIndex(issues, RepoFullName(GITHUB_ORG, LiveRepository), live.issue)

C10_CommentOnlyAfterLabels ==
  /\ \A i \in DOMAIN issues : \A k \in DOMAIN issues[i].comments :
       issues[i].comments[k].source \in {"approval", "live"}
         => {"approved", "amazon-q-ready"} \subseteq issues[i].labels
  /\ \A r \in Runs :
       ~runs[r].patched => runs[r].calls.comment = 0 /\ ApprovalCommentsOf(r) = {}
  /\ live.label_posts = 0 =>
       \A i \in DOMAIN issues : \A k \in DOMAIN issues[i].comments :
         issues[i].comments[k].source # "live"

\* Both approvals went through: label update, then comment.
C10_Witness ==
  /\ \E i \in DOMAIN issues : \E k \in DOMAIN issues[i].comments :
       issues[i].comments[k].source = "approval" /\ "approved" \in issues[i].labels
  /\ \E i \in DOMAIN issues : \E k \in DOMAIN issues[i].comments :
       issues[i].comments[k].source = "live" /\ "approved" \in issues[i].labels
  /\ runs[1].approval_result.success

\* The approval of a run has been entered: searched, simulated or answered.
ApprovalAttempted(r) ==
  \/ runs[r].pc \in {"search", "patch", "comment", "approval"}
  \/ runs[r].calls.search > 0
  \/ runs[r].approval_result # NoResult

\* C11: the steps of a run come in the order classification, token, issue
\* creation, email, approval (search, label update), comment, and each only
\* after every step before it succeeded.
C11_StepsOnlyAfterSuccess ==
  \A r \in Runs :
    /\ runs[r].approval_token # "" => runs[r].calls.classify = 1 /\ ~runs[r].classify_error
    /\ (runs[r].calls.create > 0 \/ runs[r].issue # 0) => runs[r].approval_token # ""
    /\ runs[r].calls.email > 0 => runs[r].issue # 0
    /\ ApprovalAttempted(r) => runs[r].issue # 0 /\ runs[r].email_sent
    /\ runs[r].calls.patch > 0 => runs[r].calls.search = 1 /\ runs[r].total_count > 0
    /\ runs[r].calls.comment > 0 => runs[r].patched

\* C12: the workflow does not take a request from AwaitingApproval to
\* Approved by itself.  No step of the workflow's specification is an
\* approval event from outside (a click on the approve link), so no issue a
\* run created ever gets the approved label or a trigger comment.
C12_NoApprovalWithoutExternalEvent ==
  \A i \in DOMAIN issues :
    issues[i].origin \in Runs =>
      /\ "approved" \notin issues[i].labels
      /\ issues[i].comments = <<>>

MarkerLabels == {"amazon-q", "client-request", "auto-generated"}

\* C13: an issue the workflow creates has the marker, origin and
\* auto-generated labels and, next to them, a label for the kind of its
\* request.
C13_IssueCreatedWithKindLabel ==
  [][\A i \in DOMAIN issues' \ DOMAIN issues :
       issues'[i].origin \in Runs =>
         /\ MarkerLabels \subseteq issues'[i].labels
         /\ issues'[i].labels \ MarkerLabels # {}]_vars

\* The token of the request an issue was created for.
TokenOf(issue) ==
  IF issue.origin \in Runs THEN runs[issue.origin].approval_token ELSE live.approval_token

\* The repository name in "<org>/<repository>".
RepositoryOf(issue) == Split1(issue.repo, "/")[2]

\* C14: the body of every issue the scripts create embeds the token of its
\* request, the name of its repository and the line
\* 'Status: Pending Client Approval' (in the body's markdown).
C14_BodyEmbedsTokenRepositoryStatus ==
  \A i \in DOMAIN issues :
    /\ Contains(issues[i].body, TokenOf(issues[i]))
    /\ Contains(issues[i].body, RepositoryOf(issues[i]))
    /\ Contains(issues[i].body, "**Status:** Pending Client Approval")

\* A link as its reader takes it apart: the part before '?', and the value
\* of a query parameter ("" when the link has no such parameter).
LinkPath(link) == Split1(link, "?")[1]

LinkQuery(link) == IF Len(Split1(link, "?")) = 2 THEN Split1(link, "?")[2] ELSE ""

QueryParam(link, key) ==
  LET params == SplitAll(LinkQuery(link), "&")
      hits == {k \in DOMAIN params : StartsWith(params[k], key \o "=")}
  IN IF hits = {} THEN ""
     ELSE LET k == CHOOSE h \in hits : \A j \in hits : h <= j
          IN SubSeq(params[k], Len(key) + 2, Len(params[k]))

\* C15: the approve and the reject link of every email carry the same token
\* and the same repo; the token is the one in the body of the issue created
\* for the request, the repo is the repository of that issue; the links
\* differ only in the path, /approve and /reject on the base URL.  Checked
\* on every email when it is sent.
C15_LinksCarryTokenAndRepo ==
  [][\A m \in outbox' \ outbox :
       LET token == QueryParam(m.approve_link, "token")
           repo == QueryParam(m.approve_link, "repo")
           i == IssueIndex(issues, RepoFullName(GITHUB_ORG, repo), runs[m.origin].issue)
       IN /\ token # "" /\ repo # ""
          /\ QueryParam(m.reject_link, "token") = token
          /\ QueryParam(m.reject_link, "repo") = repo
          /\ LinkQuery(m.reject_link) = LinkQuery(m.approve_link)
          /\ LinkPath(m.approve_link) = ApprovalBaseUrl \o "/approve"
          /\ LinkPath(m.reject_link) = ApprovalBaseUrl \o "/reject"
          /\ i # 0
          /\ issues[i].origin = m.origin
          /\ Contains(issues[i].body, "**Approval Token:** " \o token \o "\n")]_vars

\* Two requests with different tokens got their emails.
C15_Witness ==
  \E m, n \in outbox :
    /\ m.origin # n.origin
    /\ QueryParam(m.approve_link, "token") # QueryParam(n.reject_link, "token")
    /\ QueryParam(m.approve_link, "repo") = TestRepository

\* A representation of an email shows both links and the token.
ShowsLinksAndToken(content, approve_link, reject_link, approval_token) ==
  /\ Contains(content, approve_link)
  /\ Contains(content, reject_link)
  /\ Contains(content, approval_token)

\* An email has a plain-text and an HTML representation, each with the
\* links and the token.
BothRepresentations(email, approve_link, reject_link, approval_token) ==
  /\ {"text", "html"} \subseteq DOMAIN email
  /\ ShowsLinksAndToken(email.text, approve_link, reject_link, approval_token)
  /\ ShowsLinksAndToken(email.html, approve_link, reject_link, approval_token)

\* C16: every approval email has a plain-text and an HTML representation,
\* and each contains the approve link, the reject link and the token given
\* to the mail adapter.
C16_EmailHasBothRepresentations ==
  /\ \A m \in outbox :
       BothRepresentations(m, m.approve_link, m.reject_link, m.approval_token)
  /\ sim.pc = "done" =>
       BothRepresentations(sim.email,
                           ApprovalLink(ApprovalBaseUrl, "approve", sim.result.approval_token, SimRepository),
                           ApprovalLink(ApprovalBaseUrl, "reject", sim.result.approval_token, SimRepository),
                           sim.result.approval_token)

\* The label PATCH of a run was applied and its comment POST failed.
CommentFailedAfterLabels(r) ==
  runs[r].patched /\ runs[r].pc = "done" /\ runs[r].calls.comment = 1 /\ ApprovalCommentsOf(r) = {}

\* C17: an approval whose comment POST failed after its label update is
\* over with a failure result that carries the error, the issue keeps the
\* approval labels and has no comment of that approval; an approval that
\* failed at an earlier call has a failure result as well.
C17_FailureReportedNoRollback ==
  \A r \in Runs :
    /\ CommentFailedAfterLabels(r) =>
         /\ ~runs[r].approval_result.success
         /\ runs[r].approval_result.error \notin {"", "pending"}
         /\ TestIssue(r) # 0
         /\ ApprovalLabels \subseteq issues[TestIssue(r)].labels
    /\ (runs[r].pc = "done" /\ runs[r].calls.search = 1 /\ runs[r].calls.comment = 0) =>
         /\ ~runs[r].approval_result.success
         /\ runs[r].approval_result.error \notin {"", "pending"}
         /\ ApprovalCommentsOf(r) = {}

\* The comment POST of a run failed on an issue that its PATCH had labelled.
C17_Witness ==
  \E r \in Runs :
    /\ CommentFailedAfterLabels(r)
    /\ "approved" \in issues[TestIssue(r)].labels
    /\ "bug" \notin issues[TestIssue(r)].labels
    /\ issues[TestIssue(r)].comments = <<>>

\* The comments of a script (by their source) on the issues.
CommentsFrom(source) ==
  UNION {{<<i, k>> : k \in {c \in DOMAIN issues[i].comments : issues[i].comments[c].source = source}} :
         i \in DOMAIN issues}

DirectIssue == IssueIndex(issues, RepoFullName(GITHUB_ORG, LiveRepository), DirectIssueNumber)

\* C18: an operation reports success to its caller only when each of its
\* external calls was answered with success: add_approved_label only with
\* its comment posted, trigger_amazon_q_direct only with its comment
\* posted, add_help_wanted_label only with its labels added, the approval
\* of a run only with its comment posted.
C18_SuccessOnlyWhenEveryCallSucceeded ==
  /\ live.approved => live.label_posts > 0 /\ CommentsFrom("live") # {}
  /\ direct.trigger_success => CommentsFrom("direct") # {}
  /\ direct.label_success =>
       DirectIssue # 0 /\ HelpWantedLabels \subseteq issues[DirectIssue].labels
  /\ \A r \in Runs : runs[r].approval_result.success => ApprovalCommentsOf(r) # {}

\* The confirmation email of a run was posted and not sent.
EmailFailed(r) == runs[r].calls.email > 0 /\ ~runs[r].email_sent

CreatedIssue(r) == IssueIndex(issues, RepoFullName(GITHUB_ORG, TestRepository), runs[r].issue)

\* C19: a run whose email failed after its issue was created made one
\* send, is over, and made no approval call; its issue has the labels it
\* was created with and no comment, and no step of a run closes an issue.
C19_FailedEmailLeavesIssuePending ==
  /\ [](\A r \in Runs :
          EmailFailed(r) =>
            /\ runs[r].calls.email = 1
            /\ runs[r].pc = "done"
            /\ \A m \in outbox : m.origin # r
            /\ \A what \in {"search", "patch", "comment"} : runs[r].calls[what] = 0
            /\ runs[r].approval_result = NoResult
            /\ CreatedIssue(r) # 0
            /\ issues[CreatedIssue(r)].labels = CreationLabels(runs[r].issue_type)
            /\ issues[CreatedIssue(r)].comments = <<>>)
  /\ [][\A i \in DOMAIN issues : (issues[i].open /\ ~issues'[i].open) => runs' = runs]_vars

\* The email of the run failed; its issue is open with its creation labels.
C19_Witness ==
  /\ EmailFailed(1)
  /\ runs[1].pc = "done"
  /\ CreatedIssue(1) # 0
  /\ issues[CreatedIssue(1)].open
  /\ "bug" \in issues[CreatedIssue(1)].labels
  /\ live.pc = "done"

\* An issue has the approved and ready labels and exactly one comment of
\* the given kind, with the mention.
ApprovedWithOneComment(i, mine(_)) ==
  /\ i # 0
  /\ {"approved", "amazon-q-ready"} \subseteq issues[i].labels
  /\ Cardinality({k \in DOMAIN issues[i].comments : mine(issues[i].comments[k])}) = 1
  /\ \A k \in DOMAIN issues[i].comments :
       mine(issues[i].comments[k]) => HasMention(issues[i].comments[k])

\* C20: an approval call that reports success has left its issue with the
\* approved and amazon-q-ready labels and with exactly one comment of its
\* own, which mentions @amazon-q: for the approval of a run and for
\* add_approved_label.
C20_SuccessMeansLabelsAndOneComment ==
  /\ \A r \in Runs :
       runs[r].approval_result.success =>
         LET ByRun(comment) == comment.origin = r
         IN ApprovedWithOneComment(TestIssue(r), ByRun)
  /\ live.approved =>
       LET ByLive(comment) == comment.source = "live"
       IN ApprovedWithOneComment(LiveIssue, ByLive)

\* The open issues of the requested repository that embed the token of r.
OpenInRequestedRepo(r) ==
  {i \in DOMAIN issues :
     /\ issues[i].repo = RepoFullName(GITHUB_ORG, TestRepository)
     /\ issues[i].open
     /\ Contains(issues[i].body, runs[r].approval_token)}

OwnIssues(r) == {i \in DOMAIN issues : issues[i].origin = r}

DifferentTokens(r, o) ==
  /\ r # o
  /\ runs[r].approval_token # runs[o].approval_token

\* The token of r differs from the token of every other run.
TokenOfItsOwn(r) == \A o \in Runs \ {r} : DifferentTokens(r, o)

\* C22: runs with different tokens are independent under every interleaving.
\* A step of the approval of one run leaves the issues of every run with
\* another token as they were; and for a run whose token no other run has,
\* what its search answers depends on its own issue alone: one match, its
\* own issue, while that issue is open, and no match otherwise, as when the
\* run is the only one.
C22_DifferentTokensAreIndependent ==
  [][\A r \in Runs :
       ApprovalCall(r) =>
         /\ \A o \in Runs :
              DifferentTokens(r, o) => \A i \in OwnIssues(o) : issues'[i] = issues[i]
         /\ (TokenOfItsOwn(r) /\ approval_search(r) /\ runs'[r].total_count >= 0) =>
              /\ runs'[r].total_count = Cardinality({i \in OwnIssues(r) : issues[i].open})
              /\ runs'[r].total_count <= 1
              /\ runs'[r].pc = ApprovalFirstStep => runs'[r].issue_number = runs[r].issue
         /\ (TokenOfItsOwn(r) /\ approval_comment(r)) =>
              \A i \in DOMAIN issues :
                issues'[i].comments # issues[i].comments => i \in OwnIssues(r)]_vars

\* Both runs have approved with different tokens: each issue carries the
\* approval comment of its own run and no other.
C22_Witness ==
  /\ \A r \in Runs : runs[r].approval_result.success
  /\ \A r \in Runs : \A o \in Runs : r # o => DifferentTokens(r, o)
  /\ \A r \in Runs :
       /\ Cardinality(OwnIssues(r)) = 1
       /\ \A i \in OwnIssues(r) :
            /\ Len(issues[i].comments) = 1
            /\ issues[i].comments[1].origin = r
            /\ Contains(issues[i].comments[1].body, runs[r].approval_token)

\* The open issue of the requested repository embedding the token of r is
\* in the search index.
VisibleToSearch(r) == \E i \in OpenInRequestedRepo(r) : issues[i].indexed

ApprovedOrClosed(r) ==
  \E i \in DOMAIN issues :
    /\ issues[i].repo = RepoFullName(GITHUB_ORG, TestRepository)
    /\ Contains(issues[i].body, runs[r].approval_token)
    /\ ("approved" \in issues[i].labels \/ ~issues[i].open)

\* C23: a not-found answer given while the created issue was not yet
\* visible to the search is transient: once every approval of the token has
\* answered not-found and the issue is visible, the issue is eventually
\* labelled approved (unless a user closes it first).
C23_NotFoundIsTransient ==
  ((\A r \in Runs : runs[r].approval_result = NotFound) /\ (\A r \in Runs : VisibleToSearch(r)))
    ~> (\E r \in Runs : ApprovedOrClosed(r))

\* C24: the status poller is read-only.  Whatever the tracker holds and
\* wherever the workflow is, a step of check-amazon-q-status.py leaves every
\* issue (labels, comments, state), every pull request and every workflow
\* run as it was.
C24_PollerIsReadOnly ==
  [][poller' # poller => /\ issues' = issues
                        /\ pulls' = pulls
                        /\ workflow_runs' = workflow_runs]_vars

\* The poller has run to its end more than once while the issue was being
\* approved and commented on, with pull requests and a workflow run there.
C24_Witness ==
  /\ poller.polls >= 2
  /\ poller.issue = "issue"
  /\ poller.prs >= 1
  /\ poller.shown >= 1
  /\ live.pc = "done"
  /\ \E i \in DOMAIN issues : "approved" \in issues[i].labels /\ Len(issues[i].comments) >= 2

\* C25: the poller reports the terminal condition whenever the repository
\* has an open pull request, whoever its author is, and pending only when it
\* has none: the summary of a run whose pull request listing was answered
\* says success exactly when the listing held a pull request.
C25_AnyOpenPullRequestIsTerminal ==
  [][(poller.pc = "summary" /\ poller'.pc = "done" /\ poller.prs >= 0) =>
       (poller'.reported = "SUCCESS" <=> poller.prs >= 1)]_vars

\* The comments of the polled issue whose author has an agent login.
AgentComments ==
  LET i == IssueIndex(issues, RepoFullName(GITHUB_ORG, LiveRepository), PollerIssueNumber)
  IN IF i = 0 THEN {}
     ELSE {k \in DOMAIN issues[i].comments : IsAgentLogin(issues[i].comments[k].author)}

\* C26: the poller counts the agent as having responded whenever a comment
\* of the issue has an agent login, whatever the number of comments: a check
\* of the issue whose requests were answered finds the agent exactly when
\* such a comment is on the issue.
C26_AgentCommentCountsForAnyNumber ==
  [][(poller.pc = "issue" /\ poller'.pc = "pulls" /\ poller'.issue = "issue"
        /\ poller'.comments_status # "status") =>
       (poller'.amazon_q_found <=> AgentComments # {})]_vars

Digits == {"0", "1", "2", "3", "4", "5", "6", "7", "8", "9"}

AllDigits(s) == \A k \in 1..Len(s) : CharAt(s, k) \in Digits

\* 'APPR-' + 14 digits + '-' + 4 digits, the last four a number from 1000 on.
WellFormedToken(token) ==
  /\ Len(token) = 24
  /\ SubSeq(token, 1, 5) = "APPR-"
  /\ AllDigits(SubSeq(token, 6, 19))
  /\ CharAt(token, 20) = "-"
  /\ AllDigits(SubSeq(token, 21, 24))
  /\ CharAt(token, 21) # "0"

\* The tokens the scripts have generated so far.
GeneratedTokens ==
  ({runs[r].approval_token : r \in Runs} \cup {live.approval_token}) \ {""}

\* C27: every approval token generated by any script has the form APPR-,
\* 14 digits, a dash, and 4 digits making a number between 1000 and 9999.
C27_EveryTokenIsWellFormed == \A token \in GeneratedTokens : WellFormedToken(token)

HasBugCue(content) ==
  \E cue \in {"404", "not found", "broken"} : Contains(Lower(content), cue)

HasFeatureCue(content) ==
  \E cue \in {"add", "new", "feature"} : Contains(Lower(content), cue)

\* C28: classify_email answers bug for content with a bug cue, the feature
\* kind (enhancement) for content with a feature cue and no bug cue, and
\* neither of the two kinds for content without any cue.
C28_NoCueIsIrrelevant ==
  sim.pc # "classify" =>
    /\ HasBugCue(sim.email_content) => sim.issue_type = "bug"
    /\ (HasFeatureCue(sim.email_content) /\ ~HasBugCue(sim.email_content)) =>
         sim.issue_type = "enhancement"
    /\ (~HasFeatureCue(sim.email_content) /\ ~HasBugCue(sim.email_content)) =>
         sim.issue_type \notin {"bug", "enhancement"}

RejectPath == "/reject?"

RejectLinks == {m.reject_link : m \in outbox}

\* C29: the reject path has no effect on the tracker.  The reject link is
\* built and put into both representations of the email and nowhere else (no
\* issue body and no comment carries it); the client following a link
\* changes no issue, no run and no email; and no step of a run closes an
\* issue.
C29_RejectOnlyInEmail ==
  /\ [](/\ \A m \in outbox :
             /\ Contains(m.reject_link, RejectPath)
             /\ Contains(m.text, m.reject_link)
             /\ Contains(m.html, m.reject_link)
        /\ \A i \in DOMAIN issues :
             /\ ~Contains(issues[i].body, RejectPath)
             /\ \A k \in DOMAIN issues[i].comments :
                  ~Contains(issues[i].comments[k].body, RejectPath))
  /\ [][/\ clicks' # clicks => (issues' = issues /\ runs' = runs /\ outbox' = outbox)
        /\ runs' # runs =>
             /\ clicks' = clicks
             /\ \A i \in DOMAIN issues : issues[i].open => issues'[i].open]_vars

\* The client followed the reject link; the issue is open, and the run went
\* on to its simulated approval all the same.
C29_Witness ==
  /\ clicks \cap RejectLinks # {}
  /\ runs[1].approval_result.success
  /\ \E i \in DOMAIN issues :
       /\ issues[i].origin = 1
       /\ issues[i].open
       /\ Len(issues[i].comments) = 1

CallNames == {"classify", "create", "email", "search", "patch", "comment"}

\* C30: no external call is retried and the run terminates.  In a run each
\* of the six calls is issued at most once; a step of a run issues exactly
\* one call, one the run had not issued before; and when every call returns
\* every run reaches its end and stays there.
C30_NoRetryAndTermination ==
  /\ [](\A r \in Runs : \A c \in CallNames : runs[r].calls[c] <= 1)
  /\ [][\A r \in Runs :
          runs'[r] # runs[r] =>
            \E c \in CallNames :
              /\ runs[r].calls[c] = 0
              /\ runs'[r].calls = [runs[r].calls EXCEPT ![c] = 1]]_vars
  /\ <>[](\A r \in Runs : runs[r].pc = "done")

\* One run ended after all six calls, each made once, the other after its
\* first call failed.
C30_Witness ==
  /\ \A r \in Runs : runs[r].pc = "done"
  /\ \E r \in Runs : \A c \in CallNames : runs[r].calls[c] = 1
  /\ \E r \in Runs :
       /\ runs[r].calls = [NoCalls EXCEPT !.classify = 1]
       /\ runs[r].classify_error

\* Run r made all six calls and none of them failed: the classifier named a
\* kind, the issue was created, the email accepted, the search answered with
\* a match, and neither the label update nor the comment raised.
EveryCallSucceeded(r) ==
  /\ runs[r].pc = "done"
  /\ \A c \in CallNames : runs[r].calls[c] = 1
  /\ ~runs[r].classify_error
  /\ runs[r].issue # 0
  /\ runs[r].email_sent
  /\ runs[r].total_count >= 1
  /\ runs[r].approval_result.error # "exception"

\* The issue the approval of run r picked carries the approval labels and a
\* trigger comment of that run.
AgentTriggered(r) ==
  LET repo == RepoFullName(GITHUB_ORG, TestRepository)
      i == IssueIndex(issues, repo, runs[r].issue_number)
  IN /\ i # 0
     /\ issues[i].labels = ApprovalLabels
     /\ \E k \in DOMAIN issues[i].comments :
          /\ issues[i].comments[k].origin = r
          /\ issues[i].comments[k].source = "approval"
          /\ HasMention(issues[i].comments[k])
     /\ runs[r].approval_result = Success(repo, runs[r].issue_number)

\* C31: a run whose classifier names a kind and whose calls all succeed
\* reaches AgentTriggered.  Every run that was classified reaches its end;
\* and at the end of a run whose calls all succeeded the issue has the
\* approval labels and a trigger comment, the result is a success with that
\* issue's number, and the issue is the one the run created when no other
\* run has its token.
C31_SuccessfulRunTriggersAgent ==
  /\ [](\A r \in Runs :
          EveryCallSucceeded(r) =>
            /\ AgentTriggered(r)
            /\ TokenOfItsOwn(r) => runs[r].approval_result.issue_number = runs[r].issue)
  /\ \A r \in Runs : (runs[r].pc = "create") ~> (runs[r].pc = "done")

\* A run with a token of its own ended with every call succeeded, its issue
\* open.
C31_Witness ==
  \E r \in Runs :
    /\ EveryCallSucceeded(r)
    /\ TokenOfItsOwn(r)
    /\ AgentTriggered(r)
    /\ runs[r].issue_type = "bug"
    /\ \E i \in OwnIssues(r) : issues[i].open /\ issues[i].number = runs[r].approval_result.issue_number

SuccessfulApprovals == {r \in Runs : runs[r].approval_result.success}

\* C32: the approval is not guarded by the issue's state.  The runs approve
\* the same token: the issue carries as many trigger comments of the
\* approval as approval calls have succeeded, all on the issue that was
\* found; a label update that is answered re-applies the approval labels
\* whatever labels are there, and a comment POST that is answered adds one
\* more comment whatever comments are there, in add_approved_label too.
C32_EveryApprovalAddsAComment ==
  /\ [](/\ Cardinality(CommentsFrom("approval")) = Cardinality(SuccessfulApprovals)
        /\ \A r \in SuccessfulApprovals : \A c \in CommentsFrom("approval") : c[1] = TestIssue(r))
  /\ [][/\ \A r \in Runs :
             /\ PatchStep(r) => issues'[TestIssue(r)].labels = ApprovalLabels
             /\ (runs[r].pc = "comment" /\ runs'[r].approval_result.success) =>
                  Len(issues'[TestIssue(r)].comments) = Len(issues[TestIssue(r)].comments) + 1
        /\ (live.pc = "comment" /\ live'.pc = "done" /\ issues' # issues) =>
             Len(issues'[LiveIssue].comments) = Len(issues[LiveIssue].comments) + 1]_vars

\* Two approval calls for the same token have succeeded and the issue has two
\* trigger comments; add_approved_label, called twice, has left two as well.
C32_Witness ==
  /\ Cardinality(SuccessfulApprovals) = 2
  /\ \A r \in Runs : \A q \in Runs : runs[r].approval_token = runs[q].approval_token
  /\ Cardinality(CommentsFrom("approval")) = 2
  /\ \A c \in CommentsFrom("approval") : HasMention(issues[c[1]].comments[c[2]])
  /\ Cardinality(CommentsFrom("live")) = 2

\* The labels given at creation that are not approval labels: the kind
\* label, 'client-request' and 'auto-generated'.
CreationOnlyLabels == CreationLabels("bug") \ ApprovalLabels

\* C33: after a successful approval through
\* simulate_approval_and_trigger_amazon_q the issue has exactly the five
\* approval labels, whatever it had before, so none of the kind label,
\* 'client-request' and 'auto-generated'; add_approved_label leaves its
\* issue with every label it had and with 'approved' and 'amazon-q-ready'.
C33_PatchReplacesPostAugments ==
  /\ [](\A r \in SuccessfulApprovals :
          /\ issues[TestIssue(r)].labels =
               {"amazon-q", "approved", "amazon-q-ready", "help-wanted", "good-first-issue"}
          /\ issues[TestIssue(r)].labels \cap CreationOnlyLabels = {})
  /\ [][PostStep =>
          issues'[LiveIssue].labels = issues[LiveIssue].labels \cup {"approved", "amazon-q-ready"}]_vars

\* Both issues started with the labels of a created issue: the approved
\* test issue has lost them, the live issue has kept them next to the two
\* labels add_approved_label added.
C33_Witness ==
  /\ SuccessfulApprovals # {}
  /\ \A r \in SuccessfulApprovals : issues[TestIssue(r)].labels = ApprovalLabels
  /\ live.pc = "done"
  /\ live.label_posts >= 1
  /\ issues[LiveIssue].labels = LiveIssueLabels \cup {"approved", "amazon-q-ready"}

\* The issues that carry an approval comment of run r.
CommentedBy(r) == {c[1] : c \in ApprovalCommentsOf(r)}

\* C34: within one approval call the label update and the comment target
\* the same issue, the first item of the search result, and the result names
\* that issue.  The number a search picks is the number of one of its
\* matches; the label update and the comment of the run change only the
\* issue of that number; and a successful run has its comment on that issue
\* alone, its labels updated, and its number and URL in the result.
C34_OneIssuePerApproval ==
  /\ [][\A r \in Runs :
          LET repo == RepoFullName(GITHUB_ORG, TestRepository)
          IN /\ (approval_search(r) /\ runs'[r].pc = ApprovalFirstStep) =>
                  \E i \in SearchIssues(issues, SearchQuery(GITHUB_ORG, TestRepository,
                                                            runs[r].approval_token)) :
                    issues[i].number = runs'[r].issue_number
             /\ (approval_patch(r) \/ approval_comment(r)) =>
                  /\ runs'[r].issue_number = runs[r].issue_number
                  /\ \A i \in DOMAIN issues :
                       issues'[i] # issues[i] =>
                         issues[i].repo = repo /\ issues[i].number = runs[r].issue_number]_vars
  /\ [](\A r \in SuccessfulApprovals :
          /\ CommentedBy(r) = {TestIssue(r)}
          /\ runs[r].patched
          /\ runs[r].approval_result.issue_number = issues[TestIssue(r)].number
          /\ runs[r].approval_result.issue_url =
               IssueUrl(issues[TestIssue(r)].repo, issues[TestIssue(r)].number))

\* Two runs share a token and two issues embed it: one run's approval picked
\* the issue the other run created, and labelled, commented and reported
\* that one issue.
C34_Witness ==
  \E r \in SuccessfulApprovals :
    /\ runs[r].total_count = 2
    /\ runs[r].issue_number # runs[r].issue
    /\ CommentedBy(r) = {TestIssue(r)}
    /\ issues[TestIssue(r)].labels = ApprovalLabels

MarkerLabel == "amazon-q"

\* C35: the marker label 'amazon-q' is on every issue a script created, in
\* every reachable state: it is given at creation, and neither label update
\* of an approval nor the help-wanted label update removes it.
C35_MarkerLabelStays ==
  /\ [](\A i \in DOMAIN issues : MarkerLabel \in issues[i].labels)
  /\ [][\A i \in DOMAIN issues' :
          i \notin DOMAIN issues => MarkerLabel \in issues'[i].labels]_vars

\* The issue of the workflow was approved by the label PATCH, the live issue
\* by the label POST and the help-wanted POST; both still have the marker.
C35_Witness ==
  /\ \E r \in SuccessfulApprovals :
       /\ runs[r].patched
       /\ issues[TestIssue(r)].labels = ApprovalLabels
  /\ live.label_posts >= 1
  /\ direct.label_success
  /\ LiveIssue # 0
  /\ (LiveApprovalLabels \cup HelpWantedLabels \cup {MarkerLabel}) \subseteq issues[LiveIssue].labels

\* C36: get_client_repository always returns a non-empty name: the name
\* derived from the host of the website URL when there is one, and the
\* fallback 'client-<account_id>' otherwise, also for a URL that is empty
\* or has no scheme or host part.
C36_RepositoryNameNeverEmpty ==
  repo_call.pc = "done" =>
    /\ repo_call.repo_name # ""
    /\ (repo_call.website_url = "" \/ Netloc(repo_call.website_url) = "") =>
         repo_call.repo_name = Fallback(repo_call.account_id)

\* The open pull requests whose author login contains 'amazon-q' or 'bot',
\* whatever the case of its letters.
AgentPulls ==
  {k \in OpenPulls(pulls) :
     \E cue \in {"amazon-q", "bot"} : Contains(Lower(pulls[k].login), cue)}

\* C37: check_pull_requests returns True exactly when its listing is
\* answered and an open pull request has an agent login; it returns None
\* when pull requests are open but none has such an author, and False
\* without open pull requests and on a fetch error; and the summary reports
\* the pull request as created exactly for True, as pending otherwise.
C37_TrueOnlyForAgentPullRequest ==
  [][/\ (poller.pc = "pulls" /\ poller'.pc = "actions") =>
          /\ poller'.pr_found = "True" <=> (poller'.prs >= 1 /\ AgentPulls # {})
          /\ poller'.pr_found = "None" <=> (poller'.prs >= 1 /\ AgentPulls = {})
          /\ poller'.pr_found = "False" <=> poller'.prs <= 0
          /\ poller'.prs >= 0 => poller'.prs = Cardinality(OpenPulls(pulls))
     /\ (poller.pc = "summary" /\ poller'.pc = "done") =>
          /\ poller'.reported = "SUCCESS" <=> poller.pr_found = "True"
          /\ poller'.reported = "Pending" <=> poller.pr_found \in {"None", "False"}]_vars

\* The poller listed open pull requests, none by an agent login, and
\* reported the pull request as pending.
C37_Witness ==
  /\ poller.pc = "done"
  /\ poller.prs >= 1
  /\ poller.pr_found = "None"
  /\ poller.reported = "Pending"
  /\ OpenPulls(pulls) # {}
  /\ AgentPulls = {}

====
